---- MODULE Spec2Model ----
(***************************************************************************)
(* Model of src/src/pybind11.hpp (s2shapely): the PyObjectGeography handle *)
(* wrapper (as_geog_ptr, as_py_object, is_geog_ptr), the vectorize_arg     *)
(* trait (one handle per element of an object array) and the numpy dtype   *)
(* descriptor lookup npy_format_descriptor<PyObjectGeography>::dtype.      *)
(*                                                                         *)
(* The library calls the header makes are modelled by what they do:        *)
(*   cast<Geography*>()      pybind11's generic pointer caster: a null     *)
(*                           handle or an object of an unrelated type      *)
(*                           throws cast_error; an instance of Geography   *)
(*                           or of a subtype yields its value pointer; and *)
(*                           None is accepted for a pointer target and     *)
(*                           yields the null pointer;                      *)
(*   py::cast(unique_ptr&&)  the move-only holder caster: an empty pointer *)
(*                           yields None, a pointer that is already a      *)
(*                           registered instance yields that instance with *)
(*                           the holder left alone, otherwise a new        *)
(*                           instance takes the holder by move;            *)
(*   PyArray_DescrFromType_  the runtime's table of builtin descriptors.   *)
(***************************************************************************)
EXTENDS Integers, FiniteSets, Sequences

\* ---------------------------------------------------------------- bounds
MaxAddr == 2        \* native Geography objects that can be constructed
NumUptr == 1        \* unique_ptr variables the native callers hold at a time
NumSlots == 2       \* handles (elements of the object array)
MaxCalls == 2       \* recorded standalone descriptor lookups

\* ------------------------------------------------------------- constants
NPY_OBJECT_ == 17   \* npy_api::NPY_OBJECT_, the enum's `value`

NULL == 0
Addr == 1..MaxAddr
Uptr == 1..NumUptr          \* the callers' std::unique_ptr<T> variables
InstId == 1..MaxAddr        \* pybind11 instances (host objects wrapping a Geography)
Slot == 1..NumSlots
\* T with std::is_base_of<Geography, T>
Subtypes == {"Geography", "Point"}
\* host values that are not Geography objects
NonGeogKinds == {"NoneType", "int", "str"}
TypeNums == {NPY_OBJECT_ - 1, NPY_OBJECT_}

VARIABLES
    heap,       \* native heap: address -> [state, type, frees]
    uptr,       \* caller-side unique_ptr<T>: the address it owns, or NULL
    inst,       \* host instances: id -> [state, value, owned, refcnt, pytype, src]
    arr,        \* the handles (py::object) of the object array
    last,       \* the call of the handle wrapper that has just returned
    vres,       \* per-element results of the last vectorized call
    descrTable, \* the runtime's descriptor table: type number -> descriptor or NULL
    dlog        \* results of the standalone descriptor lookups, in order

vars == <<heap, uptr, inst, arr, last, vres, descrTable, dlog>>

\* ------------------------------------------------------------- handles
NullH == [kind |-> "null", id |-> 0]
ValueRef(k) == [kind |-> k, id |-> 0]
InstRef(i) == [kind |-> "inst", id |-> i]

\* The referent is an instance of Geography or of a subtype of it.
IsGeography(ref) == ref.kind = "inst"

NoInst == [state |-> "none", value |-> NULL, owned |-> FALSE, refcnt |-> 0,
           pytype |-> "none", src |-> NULL]
NoObj == [state |-> "unalloc", type |-> "none", frees |-> 0]

IdleLast == [op |-> "none", slot |-> 0, u |-> 0, ok |-> TRUE, ptr |-> NULL,
             exc |-> "none", host |-> "none", msg |-> ""]
NoResult == [ref |-> NullH, ok |-> FALSE, ptr |-> NULL, exc |-> "none",
             host |-> "none", msg |-> ""]
IdleVec == [s \in Slot |-> NoResult]

\* pybind11's translation of a C++ exception to the host's exception type.
HostException(exc) ==
    CASE exc = "type_error" -> "TypeError"
      [] exc = "value_error" -> "ValueError"
      [] exc = "runtime_error" -> "RuntimeError"
      [] OTHER -> "none"

\* delete p: the object's destructor runs and its memory is released.
Delete(h, p) == [h EXCEPT ![p] = [@ EXCEPT !.state = "freed", !.frees = @ + 1]]

\* registered_instances: the live instances whose value pointer is p.
Registered(p) == {i \in InstId : inst[i].state = "live" /\ inst[i].value = p}

Min(S) == CHOOSE x \in S : \A y \in S : x <= y

\* ------------------------------------------------------ Python -> C++
\* cast<Geography*>(): [ok, ptr]; ok = FALSE stands for py::cast_error.
CastExact(ref) ==
    CASE ref.kind = "inst" /\ inst[ref.id].pytype = "Geography" ->
             [ok |-> TRUE, ptr |-> inst[ref.id].value]
      [] ref.kind = "NoneType" -> [ok |-> TRUE, ptr |-> NULL]
      [] OTHER -> [ok |-> FALSE, ptr |-> NULL]

Cast(ref) ==
    CASE ref.kind = "inst" -> [ok |-> TRUE, ptr |-> inst[ref.id].value]
      [] ref.kind = "NoneType" -> [ok |-> TRUE, ptr |-> NULL]
      [] OTHER -> [ok |-> FALSE, ptr |-> NULL]

\* The value as_geog_ptr returns, or the exception it throws, for a handle.
AsGeogPtrResult(ref) ==
    LET c == Cast(ref)
    IN IF c.ok
       THEN [ok |-> TRUE, ptr |-> c.ptr, exc |-> "none", host |-> "none", msg |-> ""]
       ELSE [ok |-> FALSE, ptr |-> NULL, exc |-> "type_error",
             host |-> HostException("type_error"), msg |-> "not a Geography object"]

\* The value is_geog_ptr returns: it catches cast_error and throws nothing.
IsGeogPtrResult(ref) ==
    [ok |-> Cast(ref).ok, ptr |-> NULL, exc |-> "none", host |-> "none", msg |-> ""]

CallRecord(op, s, u, r) ==
    [op |-> op, slot |-> s, u |-> u, ok |-> r.ok, ptr |-> r.ptr,
     exc |-> r.exc, host |-> r.host, msg |-> r.msg]

as_geog_ptr_move(s) ==
    /\ last' = CallRecord("as_geog_ptr", s, 0, AsGeogPtrResult(arr[s]))
    /\ arr' = [arr EXCEPT ![s] = NullH]
    /\ UNCHANGED <<heap, uptr, inst, vres, descrTable, dlog>>

as_geog_ptr(s) ==
    /\ last' = CallRecord("as_geog_ptr", s, 0, AsGeogPtrResult(arr[s]))
    /\ UNCHANGED <<heap, uptr, inst, arr, vres, descrTable, dlog>>

is_geog_ptr(s) ==
    /\ last' = CallRecord("is_geog_ptr", s, 0, IsGeogPtrResult(arr[s]))
    /\ UNCHANGED <<heap, uptr, inst, arr, vres, descrTable, dlog>>

\* ------------------------------------------------------ C++ -> Python
\* The caller builds a Geography of subtype T: std::make_unique<T>(...).
Construct(u, T) ==
    /\ uptr[u] = NULL
    /\ \E a \in Addr :
          /\ heap[a].state = "unalloc"
          /\ \A b \in Addr : heap[b].state = "unalloc" => a <= b
          /\ heap' = [heap EXCEPT ![a] = [state |-> "live", type |-> T, frees |-> 0]]
          /\ uptr' = [uptr EXCEPT ![u] = a]
    /\ last' = IdleLast
    /\ vres' = IdleVec
    /\ UNCHANGED <<inst, arr, descrTable, dlog>>

\* A new host instance that takes the holder: value pointer p, owned by the host.
NewInstance(p) ==
    [state |-> "live", value |-> p, owned |-> TRUE, refcnt |-> 1,
     pytype |-> heap[p].type, src |-> p]

WrapRecord(s, u, p) ==
    [op |-> "as_py_object", slot |-> s, u |-> u, ok |-> TRUE, ptr |-> p,
     exc |-> "none", host |-> "none", msg |-> ""]

\* A holder that is copied rather than moved: the caller's pointer stays set.
as_py_object_share(u, s) ==
    /\ arr[s] = NullH
    /\ uptr[u] # NULL
    /\ Registered(uptr[u]) = {}
    /\ \E i \in InstId :
          /\ inst[i].state = "none"
          /\ \A j \in InstId : inst[j].state = "none" => i <= j
          /\ inst' = [inst EXCEPT ![i] = NewInstance(uptr[u])]
          /\ arr' = [arr EXCEPT ![s] = InstRef(i)]
    /\ last' = WrapRecord(s, u, uptr[u])
    /\ vres' = IdleVec
    /\ UNCHANGED <<heap, uptr, descrTable, dlog>>

\* An implicit conversion by value: the host gets a copy at a new address.
as_py_object_copy(u, s) ==
    /\ arr[s] = NullH
    /\ uptr[u] # NULL
    /\ \E a \in Addr, i \in InstId :
          /\ heap[a].state = "unalloc"
          /\ inst[i].state = "none"
          /\ \A j \in InstId : inst[j].state = "none" => i <= j
          /\ heap' = [Delete(heap, uptr[u]) EXCEPT
                        ![a] = [state |-> "live", type |-> heap[uptr[u]].type, frees |-> 0]]
          /\ inst' = [inst EXCEPT ![i] = [NewInstance(uptr[u]) EXCEPT !.value = a]]
          /\ arr' = [arr EXCEPT ![s] = InstRef(i)]
    /\ uptr' = [uptr EXCEPT ![u] = NULL]
    /\ last' = WrapRecord(s, u, uptr[u])
    /\ vres' = IdleVec
    /\ UNCHANGED <<descrTable, dlog>>

\* as_py_object(std::move(uptr[u])), the returned py::object stored in slot s.
\* The argument is moved into the parameter geog_ptr, so the caller's pointer
\* is empty afterwards in every case; py::cast takes the parameter's holder
\* only when it makes a new instance, and what the parameter still owns when
\* the function returns is deleted by its destructor.
as_py_object(u, s) ==
    /\ arr[s] = NullH
    /\ LET p == uptr[u]
       IN /\ IF p = NULL
             THEN /\ arr' = [arr EXCEPT ![s] = ValueRef("NoneType")]
                  /\ UNCHANGED <<heap, inst>>
             ELSE IF Registered(p) # {}
             THEN LET i == Min(Registered(p))
                  IN /\ inst' = [inst EXCEPT ![i].refcnt = @ + 1]
                     /\ arr' = [arr EXCEPT ![s] = InstRef(i)]
                     /\ heap' = Delete(heap, p)
             ELSE \E i \in InstId :
                     /\ inst[i].state = "none"
                     /\ \A j \in InstId : inst[j].state = "none" => i <= j
                     /\ inst' = [inst EXCEPT ![i] = NewInstance(p)]
                     /\ arr' = [arr EXCEPT ![s] = InstRef(i)]
                     /\ UNCHANGED heap
          /\ last' = WrapRecord(s, u, p)
    /\ uptr' = [uptr EXCEPT ![u] = NULL]
    /\ vres' = IdleVec
    /\ UNCHANGED <<descrTable, dlog>>

\* ---------------------------------------------- handles held by the host
\* A handle to a host value that is not a Geography (None, an int, a str).
SetValue(s, k) ==
    /\ arr[s] = NullH
    /\ arr' = [arr EXCEPT ![s] = ValueRef(k)]
    /\ last' = IdleLast
    /\ vres' = IdleVec
    /\ UNCHANGED <<heap, uptr, inst, descrTable, dlog>>

\* Copying a py::object: the referent is shared, its reference count goes up.
CopyHandle(s, t) ==
    /\ arr[s] # NullH
    /\ arr[t] = NullH
    /\ arr' = [arr EXCEPT ![t] = arr[s]]
    /\ inst' = IF arr[s].kind = "inst"
               THEN [inst EXCEPT ![arr[s].id].refcnt = @ + 1]
               ELSE inst
    /\ last' = IdleLast
    /\ vres' = IdleVec
    /\ UNCHANGED <<heap, uptr, descrTable, dlog>>

\* A py::object goes out of scope: dec_ref; at zero the instance is
\* deallocated and its holder deletes the Geography it owns.
DropHandle(s) ==
    /\ arr[s] # NullH
    /\ arr' = [arr EXCEPT ![s] = NullH]
    /\ IF arr[s].kind = "inst"
       THEN LET i == arr[s].id
            IN IF inst[i].refcnt > 1
               THEN /\ inst' = [inst EXCEPT ![i].refcnt = @ - 1]
                    /\ UNCHANGED heap
               ELSE /\ inst' = [inst EXCEPT ![i] = [@ EXCEPT !.state = "dead", !.refcnt = 0]]
                    /\ heap' = IF inst[i].owned THEN Delete(heap, inst[i].value) ELSE heap
       ELSE UNCHANGED <<heap, inst>>
    /\ last' = IdleLast
    /\ vres' = IdleVec
    /\ UNCHANGED <<uptr, descrTable, dlog>>

\* ------------------------------------------------------ dtype descriptor
PyArray_DescrFromType_(t) == descrTable[t]

DtypeResult(ptr) ==
    IF ptr # NULL
    THEN [ok |-> TRUE, descr |-> ptr, exc |-> "none", msg |-> ""]
    ELSE [ok |-> FALSE, descr |-> NULL, exc |-> "runtime_error",
          msg |-> "Unsupported buffer format!"]

\* A lookup that builds a descriptor of its own on every call.
dtype_fresh == [DtypeResult(PyArray_DescrFromType_(NPY_OBJECT_)) EXCEPT
                   !.descr = IF @ = NULL THEN NULL ELSE @ + Len(dlog)]

\* A lookup under the wrong type number, which never reports a missing kind.
dtype_wrong_kind == DtypeResult(PyArray_DescrFromType_(NPY_OBJECT_ - 1))

\* npy_format_descriptor<PyObjectGeography>::dtype()
dtype == DtypeResult(PyArray_DescrFromType_(NPY_OBJECT_))

\* A standalone lookup of the descriptor (dtype::of<PyObjectGeography>()).
DtypeLookup ==
    /\ Len(dlog) < MaxCalls
    /\ dlog' = Append(dlog, dtype)
    /\ UNCHANGED <<heap, uptr, inst, arr, last, vres, descrTable>>

\* ------------------------------------------------------- vectorized call
VecRecord(ok) ==
    [op |-> "vectorize", slot |-> 0, u |-> 0, ok |-> ok, ptr |-> NULL,
     exc |-> IF ok THEN "none" ELSE dtype.exc,
     host |-> IF ok THEN "none" ELSE HostException(dtype.exc),
     msg |-> IF ok THEN "" ELSE dtype.msg]

\* A vectorized function is called with the array: the argument is coerced to
\* array_t<PyObjectGeography, forcecast>, which needs the descriptor, and the
\* wrapped function is then handed one handle per element, on which it calls
\* as_geog_ptr; the outcome at each index is recorded.  Every element of
\* an object array refers to a host object.
Vectorize ==
    /\ \A s \in Slot : arr[s] # NullH
    /\ IF dtype.ok
       THEN vres' = [s \in Slot |->
                        LET r == AsGeogPtrResult(arr[s])
                        IN [ref |-> arr[s], ok |-> r.ok, ptr |-> r.ptr, exc |-> r.exc,
                            host |-> r.host, msg |-> r.msg]]
       ELSE vres' = IdleVec
    /\ last' = VecRecord(dtype.ok)
    /\ UNCHANGED <<heap, uptr, inst, arr, descrTable, dlog>>

\* ------------------------------------------------- re-wrapping a pointer
\* Native code takes the pointer as_geog_ptr returns for slot s into a
\* unique_ptr: std::unique_ptr<Geography>(h.as_geog_ptr()), to wrap it again.
AdoptRaw(u, s) ==
    /\ uptr[u] = NULL
    /\ LET r == AsGeogPtrResult(arr[s])
       IN /\ r.ok
          /\ r.ptr # NULL
          /\ heap[r.ptr].state = "live"
          /\ uptr' = [uptr EXCEPT ![u] = r.ptr]
    /\ last' = IdleLast
    /\ vres' = IdleVec
    /\ UNCHANGED <<heap, inst, arr, descrTable, dlog>>

Init ==
    /\ heap = [a \in Addr |-> NoObj]
    /\ uptr = [u \in Uptr |-> NULL]
    /\ inst = [i \in InstId |-> NoInst]
    /\ arr = [s \in Slot |-> NullH]
    /\ last = IdleLast
    /\ vres = IdleVec
    /\ descrTable \in {[t \in TypeNums |-> IF t = NPY_OBJECT_ /\ ~present THEN NULL ELSE t + 1]
                         : present \in BOOLEAN}
    /\ dlog = <<>>

Next ==
    \/ \E u \in Uptr, T \in Subtypes : Construct(u, T)
    \/ \E u \in Uptr, s \in Slot : as_py_object(u, s)
    \/ \E s \in Slot : as_geog_ptr(s)
    \/ \E s \in Slot : is_geog_ptr(s)
    \/ \E s \in Slot, k \in NonGeogKinds : SetValue(s, k)
    \/ \E s, t \in Slot : CopyHandle(s, t)
    \/ \E s \in Slot : DropHandle(s)
    \/ Vectorize

\* The handle wrapper and the vectorized call, used as the header intends.
Spec == Init /\ [][Next]_vars

NextRewrap ==
    \/ Next
    \/ \E u \in Uptr, s \in Slot : AdoptRaw(u, s)

\* The same, with native code that wraps a pointer it got from a handle.
SpecRewrap == Init /\ [][NextRewrap]_vars

NextDtype ==
    \/ DtypeLookup
    \/ Vectorize
    \/ \E s \in Slot, k \in NonGeogKinds : SetValue(s, k)
    \/ \E s \in Slot : DropHandle(s)

\* The descriptor lookup, standalone and from vectorized calls on arrays of
\* host values.
SpecDtype == Init /\ [][NextDtype]_vars

\* ===================================================================
\* Properties
\* ===================================================================
CastOps == {"as_geog_ptr", "is_geog_ptr"}

\* The owners of the Geography at address a: the unique_ptrs that hold it and
\* the live host instances whose holder owns it.
Owners(a) ==
    {<<"native", u>> : u \in {v \in Uptr : uptr[v] = a}}
        \cup {<<"host", i>> : i \in {j \in InstId : inst[j].state = "live"
                                                  /\ inst[j].owned /\ inst[j].value = a}}

\* C1: on a handle whose referent is not a Geography object, as_geog_ptr
\* fails with the type-mismatch error and is_geog_ptr returns false without
\* raising.
C1_NonGeographyRejected ==
    /\ (last.op = "as_geog_ptr" /\ ~IsGeography(arr[last.slot]))
          => (~last.ok /\ last.exc = "type_error")
    /\ (last.op = "is_geog_ptr" /\ ~IsGeography(arr[last.slot]))
          => (~last.ok /\ last.exc = "none")

\* C2: on a handle whose referent is a Geography or a subtype of it,
\* is_geog_ptr returns true and as_geog_ptr returns the address of that very
\* object, which is live and of the subtype it was constructed with.
C2_GeographyCastSucceeds ==
    (last.op \in CastOps /\ IsGeography(arr[last.slot])) =>
        /\ last.ok
        /\ last.exc = "none"
        /\ last.op = "as_geog_ptr" =>
              /\ last.ptr = inst[arr[last.slot].id].value
              /\ last.ptr # NULL
              /\ heap[last.ptr].state = "live"
              /\ heap[last.ptr].type = inst[arr[last.slot].id].pytype

C2_Witness ==
    /\ last.op = "as_geog_ptr"
    /\ IsGeography(arr[last.slot])
    /\ last.ok
    /\ heap[last.ptr].type = "Point"

\* C3: when the cast in as_geog_ptr fails, the host sees a ValueError with
\* the message "not a Geography object".
C3_CastFailureIsValueError ==
    (last.op = "as_geog_ptr" /\ ~last.ok) =>
        (last.host = "ValueError" /\ last.msg = "not a Geography object")

\* C4: every Geography has at most one owner in every state; as_py_object
\* leaves the unique_ptr it was given empty and the host the only owner; and
\* the pointer as_geog_ptr returns is owned by no native unique_ptr.
C4_SingleOwner ==
    /\ \A a \in Addr : Cardinality(Owners(a)) <= 1
    /\ last.op = "as_py_object" =>
          /\ uptr[last.u] = NULL
          /\ last.ptr # NULL =>
                \E i \in InstId : /\ arr[last.slot] = InstRef(i)
                                  /\ Owners(last.ptr) = {<<"host", i>>}
    /\ (last.op = "as_geog_ptr" /\ last.ok /\ last.ptr # NULL) =>
          \E i \in InstId : Owners(last.ptr) = {<<"host", i>>}

C4_Witness ==
    /\ last.op = "as_py_object"
    /\ last.ptr # NULL
    /\ Cardinality(Owners(last.ptr)) = 1
    /\ \E a \in Addr : a # last.ptr /\ heap[a].state = "live"

\* C5: the handle as_py_object returns for a freshly constructed object o
\* answers is_geog_ptr with true and as_geog_ptr with o's own address: the
\* object was not copied and is still the one that was constructed.
C5_RoundTripIdentity ==
    (last.op \in CastOps /\ arr[last.slot].kind = "inst") =>
        /\ last.ok
        /\ last.op = "as_geog_ptr" =>
              /\ last.ptr = inst[arr[last.slot].id].src
              /\ heap[last.ptr].state = "live"
              /\ heap[last.ptr].frees = 0

C5_Witness ==
    /\ last.op = "as_geog_ptr"
    /\ arr[last.slot].kind = "inst"
    /\ last.ptr # NULL
    /\ last.ptr = inst[arr[last.slot].id].src

\* C6: wrapping an object, casting the handle back and wrapping the result
\* again neither duplicates nor double-frees it: no object is freed twice,
\* no address has two host instances, and a live instance's object is live.
C6_NoDuplicateNoDoubleFree ==
    \A a \in Addr :
        /\ heap[a].frees <= 1
        /\ Cardinality(Registered(a)) <= 1
        /\ Registered(a) # {} => heap[a].state = "live"

\* A vectorized call has handed out the elements and recorded the outcomes.
VecDone == vres # IdleVec

\* C7: a vectorized pass of as_geog_ptr over the array succeeds at exactly
\* the indices whose element is a Geography and raises the type-mismatch
\* error at exactly the others; a later as_geog_ptr on any element gives the
\* result the pass gave.
C7_VectorizedCastsMatchKinds ==
    /\ (last.op = "vectorize" /\ last.ok) =>
          \A s \in Slot : /\ vres[s].ok <=> IsGeography(arr[s])
                          /\ ~vres[s].ok => vres[s].exc = "type_error"
    /\ (last.op = "as_geog_ptr" /\ VecDone) =>
          /\ vres[last.slot].ref = arr[last.slot]
          /\ vres[last.slot].ok = last.ok
          /\ vres[last.slot].ptr = last.ptr
          /\ last.ok <=> IsGeography(arr[last.slot])

\* C8: a call of as_geog_ptr or is_geog_ptr, successful or not, changes
\* neither the handle nor its referent, the referent's owner or its
\* reference count.
C8_CastsLeaveHandleUnchanged ==
    [][(\E s \in Slot : as_geog_ptr(s) \/ is_geog_ptr(s))
          => (arr' = arr /\ inst' = inst /\ heap' = heap /\ uptr' = uptr)]_vars

C8_Witness ==
    /\ last.op = "as_geog_ptr"
    /\ ~last.ok
    /\ arr[last.slot].kind = "int"
    /\ \E t \in Slot : arr[t].kind = "inst" /\ inst[arr[t].id].refcnt = 1

\* C9: within one runtime every descriptor lookup ends the same way: all
\* return the same descriptor, or all fail with "Unsupported buffer format!".
C9_DtypeRepeatable ==
    \A i, j \in 1..Len(dlog) :
        /\ dlog[i] = dlog[j]
        /\ \/ dlog[i].ok /\ dlog[i].descr # NULL /\ dlog[i].exc = "none"
           \/ ~dlog[i].ok /\ dlog[i].exc = "runtime_error"
                 /\ dlog[i].msg = "Unsupported buffer format!"

C9_Witness ==
    /\ Len(dlog) = MaxCalls
    /\ dlog[1].ok
    /\ dlog[MaxCalls].descr = descrTable[NPY_OBJECT_]

====
